---- MODULE Spec2Model ----
(***************************************************************************)
(* Conditional-release workflow of the pycardano examples:                 *)
(*   examples/plutus/time_locked_gift/vesting.py  (TimeLocked flow)        *)
(*   examples/plutus/forty_two/forty_two.py       (Fixed flow)             *)
(* Two instances of one script run concurrently against one ledger         *)
(* gateway; other parties may place outputs at the script address.         *)
(***************************************************************************)
EXTENDS Integers, Sequences, FiniteSets, TLC

(* ---------------------------------------------------------------------- *)
(* Program constants                                                       *)
(* ---------------------------------------------------------------------- *)
AttemptCeiling == 20
VestingConstrId == 0
VestingLockAmount == 10000000
LockDurationSeconds == 60
MainSleepSeconds == 65
FortyTwoDatum == 42
FortyTwoRedeemer == 42
FortyTwoLockAmount == 50000000
FortyTwoTakeAmount == 25123456

(* ---------------------------------------------------------------------- *)
(* Bounds of the model                                                     *)
(* ---------------------------------------------------------------------- *)
MaxEnvOutputs == 1
EnvCoin == 2000000
TickMs == 35000
MaxTime == 105000
MaxPolls == 21

(* Two concurrent instances. Instance Giver runs the whole script; in the   *)
(* TimeLocked flow instance Taker only calls claim_funds, in the Fixed     *)
(* flow it runs the whole script too (forty_two.py has no entry point      *)
(* other than the module itself).                                          *)
Giver == 1
Taker == Giver + 1
Procs == {Giver, Taker}
Flows == {"vesting", "fixed"}

(* Key hashes: MyKey is payment_vkey.hash() of the running instances,      *)
(* OtherKey the hash of some other party.                                  *)
MyKey == 1
OtherKey == MyKey + 1

VARIABLES
    flow,        \* which script the instances run
    now,         \* ledger / wall clock, milliseconds
    created,     \* outputs ever created at script_address, in gateway order
    spent,       \* ids of outputs consumed by an accepted transaction
    refStored,   \* giver_address holds an output carrying forty_two_script
    wallet_funded, \* chain_context.utxos(my_address) is not empty
    pc,          \* position of each instance
    op,          \* operation each instance is in
    deadline,    \* deadline_ms returned by lock_funds
    wakeAt,      \* end of time.sleep(65) in vesting.py's main
    script_utxo, \* script_utxo / utxo_to_spend selected by the scan
    tx,          \* signed_tx of the operation in flight
    submits,     \* chain_context.submit_tx calls of the current operation
    polls,       \* chain_context.api.transaction calls of the current wait
    result       \* outcome of the last finished step of each instance

vars == <<flow, now, created, spent, refStored, wallet_funded, pc, op, deadline, wakeAt,
          script_utxo, tx, submits, polls, result>>

(* ---------------------------------------------------------------------- *)
(* Datum payloads: a flat rendering of the CBOR items.                     *)
(*   unsigned integer n         <<0, n>>                                   *)
(*   constructor i, two fields  <<121 + i, 2, type1, v1, type2, v2>>       *)
(*   with type 2 = byte string, type 0 = integer.                          *)
(* The empty sequence is an output without a datum.                        *)
(* ---------------------------------------------------------------------- *)
NoDatum == <<>>
CborInt(n) == <<0, n>>
CborConstr(i, t1, v1, t2, v2) == <<121 + i, 2, t1, v1, t2, v2>>

(* The two fields written in the wrong order.                              *)
VestingDatumToCborSwapped(beneficiary, dl) == CborConstr(VestingConstrId, 0, dl, 2, beneficiary)

(* VestingDatum(beneficiary: bytes, deadline: int).to_cbor()               *)
VestingDatumToCbor(beneficiary, dl) == CborConstr(VestingConstrId, 2, beneficiary, 0, dl)

NoCondition == [ok |-> FALSE, beneficiary |-> 0, deadline |-> 0]

(* VestingDatum.from_cbor: ok = FALSE stands for the exception raised on a *)
(* payload that is not constructor 0 with a byte string and an integer.    *)
VestingDatumFromCbor(cbor) ==
    IF /\ Len(cbor) = 6
       /\ cbor[1] = 121 + VestingConstrId
       /\ cbor[2] = 2
       /\ cbor[3] = 2
       /\ cbor[5] = 0
    THEN [ok |-> TRUE, beneficiary |-> cbor[4], deadline |-> cbor[6]]
    ELSE NoCondition

(* The datum 42 of forty_two.py as a payload, and its reading back.        *)
FixedDatumToCbor(n) == CborInt(n)
IsFixedDatum(cbor) == Len(cbor) = 2 /\ cbor[1] = 0
FixedValue(cbor) == cbor[2]

(* ---------------------------------------------------------------------- *)
(* Ledger gateway                                                          *)
(* ---------------------------------------------------------------------- *)
NoUtxo == [id |-> 0, payload |-> NoDatum, coin |-> 0]
NoTx == [kind |-> "none", input |-> 0, redeemer |-> 0, dest |-> 0, coin |-> 0,
         validity_start |-> 0, signer |-> 0, collateral |-> FALSE,
         script |-> "none", payload |-> NoDatum]

(* chain_context.utxos(script_address): the unspent outputs, in order.     *)
ScriptUtxos == SelectSeq(created, LAMBDA u : u.id \notin spent)

(* chain_context.last_block_slot: one slot per second.                     *)
LastBlockSlot == now \div 1000
SlotTime(slot) == slot * 1000

CreatedIds == {created[i].id : i \in 1..Len(created)}
UtxoById(id) == CHOOSE u \in {created[i] : i \in 1..Len(created)} : u.id = id

(* The predicate guarding an output, as the ledger runs it on a spend.     *)
PredicateAccepts(u, t) ==
    IF flow = "vesting"
    THEN LET c == VestingDatumFromCbor(u.payload)
         IN  /\ c.ok
             /\ t.signer = c.beneficiary
             /\ SlotTime(t.validity_start) > c.deadline
    ELSE /\ IsFixedDatum(u.payload)
         /\ t.redeemer = FixedValue(u.payload)

(* Whether the ledger takes the transaction: a spend needs its input       *)
(* unspent (single spend) and the predicate satisfied.                     *)
LedgerValid(t) ==
    IF t.kind = "release"
    THEN /\ t.input \in CreatedIds
         /\ t.input \notin spent
         /\ t.validity_start <= LastBlockSlot
         /\ PredicateAccepts(UtxoById(t.input), t)
    ELSE TRUE

InsertAt(s, i, e) == SubSeq(s, 1, i - 1) \o <<e>> \o SubSeq(s, i, Len(s))

Init ==
    /\ flow \in Flows
    /\ now = 0
    /\ created = <<>>
    /\ spent = {}
    /\ refStored = FALSE
    /\ wallet_funded \in BOOLEAN
    /\ pc = [p \in Procs |-> IF flow = "vesting" /\ p = Taker THEN "scan" ELSE "build"]
    /\ op = [p \in Procs |-> IF flow = "fixed" THEN "store"
                             ELSE IF p = Taker THEN "claim" ELSE "lock"]
    /\ deadline = [p \in Procs |-> 0]
    /\ wakeAt = [p \in Procs |-> 0]
    /\ script_utxo = [p \in Procs |-> NoUtxo]
    /\ tx = [p \in Procs |-> NoTx]
    /\ submits = [p \in Procs |-> 0]
    /\ polls = [p \in Procs |-> 0]
    /\ result = [p \in Procs |-> "none"]

(* ---------------------------------------------------------------------- *)
(* Environment                                                             *)
(* ---------------------------------------------------------------------- *)
(* Time passes. forty_two.py reads no clock, so the clock is left alone in *)
(* the Fixed flow.                                                         *)
Tick ==
    /\ flow = "vesting"
    /\ now + TickMs <= MaxTime
    /\ now' = now + TickMs
    /\ UNCHANGED <<flow, created, spent, refStored, wallet_funded, pc, op, deadline, wakeAt,
                   script_utxo, tx, submits, polls, result>>

(* Payloads other parties attach to outputs they send to script_address.   *)
EnvPayloads ==
    IF flow = "vesting"
    THEN {NoDatum, CborInt(FortyTwoDatum),
          VestingDatumToCbor(OtherKey, 0),
          VestingDatumToCbor(MyKey, MaxTime)}
    ELSE {NoDatum, CborInt(FortyTwoDatum - 1), CborInt(FortyTwoDatum)}

EnvIds == {Taker + i : i \in 1..MaxEnvOutputs}

EnvLock ==
    /\ \E id \in EnvIds \ CreatedIds, payload \in EnvPayloads, pos \in 1..(Len(created) + 1) :
          /\ \A j \in EnvIds : j < id => j \in CreatedIds
          /\ created' = InsertAt(created, pos, [id |-> id, payload |-> payload, coin |-> EnvCoin])
    /\ UNCHANGED <<flow, now, spent, refStored, wallet_funded, pc, op, deadline, wakeAt,
                   script_utxo, tx, submits, polls, result>>

(* ---------------------------------------------------------------------- *)
(* submit_tx and wait_for_tx (both scripts)                                *)
(* ---------------------------------------------------------------------- *)

(* The ledger's state after it took transaction t of instance p.           *)
Applied(p, t) ==
    /\ IF t.kind = "lock"
       THEN \E pos \in 1..(Len(created) + 1) :
               created' = InsertAt(created, pos,
                              [id |-> p, payload |-> t.payload, coin |-> t.coin])
       ELSE created' = created
    /\ spent' = IF t.kind = "release" THEN spent \cup {t.input} ELSE spent
    /\ refStored' = (refStored \/ t.kind = "store")
    /\ wallet_funded' = (wallet_funded \/ t.kind = "release")

(* submit_tx that submits again after a rejection.                         *)
SubmitTxRetry(p) ==
    /\ pc[p] = "submit"
    /\ submits[p] < 2
    /\ submits' = [submits EXCEPT ![p] = @ + 1]
    /\ \E accept \in BOOLEAN :
          IF accept /\ LedgerValid(tx[p])
          THEN /\ Applied(p, tx[p])
               /\ pc' = [pc EXCEPT ![p] = "wait"]
               /\ tx' = [tx EXCEPT ![p] = NoTx]
          ELSE /\ UNCHANGED <<created, spent, refStored, wallet_funded, pc, tx>>
    /\ polls' = [polls EXCEPT ![p] = 0]
    /\ result' = [result EXCEPT ![p] = "none"]
    /\ UNCHANGED <<flow, now, op, deadline, wakeAt, script_utxo>>

(* submit_tx with the gateway's exception swallowed: the wait follows a    *)
(* rejected transaction too.                                               *)
SubmitTxSwallow(p) ==
    /\ pc[p] = "submit"
    /\ submits' = [submits EXCEPT ![p] = @ + 1]
    /\ \E accept \in BOOLEAN :
          IF accept /\ LedgerValid(tx[p])
          THEN Applied(p, tx[p])
          ELSE UNCHANGED <<created, spent, refStored, wallet_funded>>
    /\ pc' = [pc EXCEPT ![p] = "wait"]
    /\ polls' = [polls EXCEPT ![p] = 0]
    /\ result' = [result EXCEPT ![p] = "none"]
    /\ tx' = [tx EXCEPT ![p] = NoTx]
    /\ UNCHANGED <<flow, now, op, deadline, wakeAt, script_utxo>>

(* submit_tx: chain_context.submit_tx(tx) raises on rejection and the      *)
(* exception leaves the script; otherwise wait_for_tx follows.             *)
SubmitTx(p) ==
    /\ pc[p] = "submit"
    /\ submits' = [submits EXCEPT ![p] = @ + 1]
    /\ \E accept \in BOOLEAN :
          IF accept /\ LedgerValid(tx[p])
          THEN /\ Applied(p, tx[p])
               /\ pc' = [pc EXCEPT ![p] = "wait"]
               /\ polls' = [polls EXCEPT ![p] = 0]
               /\ result' = [result EXCEPT ![p] = "none"]
          ELSE /\ pc' = [pc EXCEPT ![p] = "raised"]
               /\ result' = [result EXCEPT ![p] = "SubmissionRejected"]
               /\ UNCHANGED <<created, spent, refStored, wallet_funded, polls>>
    /\ tx' = [tx EXCEPT ![p] = NoTx]
    /\ UNCHANGED <<flow, now, op, deadline, wakeAt, script_utxo>>

(* What follows a finished wait_for_tx, by script and operation.           *)
AfterWait(p, outcome) ==
    /\ polls' = [polls EXCEPT ![p] = 0]
    /\ result' = [result EXCEPT ![p] = outcome]
    /\ IF flow = "vesting"
       THEN IF op[p] = "lock"
            THEN /\ pc' = [pc EXCEPT ![p] = "sleep"]
                 /\ wakeAt' = [wakeAt EXCEPT ![p] = now + MainSleepSeconds * 1000]
                 /\ op' = op
            ELSE /\ pc' = [pc EXCEPT ![p] = "done"]
                 /\ UNCHANGED <<wakeAt, op>>
       ELSE /\ wakeAt' = wakeAt
            /\ IF op[p] = "store"
               THEN /\ pc' = [pc EXCEPT ![p] = "build"]
                    /\ op' = [op EXCEPT ![p] = "lock"]
               ELSE IF op[p] = "lock"
               THEN /\ pc' = [pc EXCEPT ![p] = "scan"]
                    /\ op' = [op EXCEPT ![p] = "take"]
               ELSE /\ pc' = [pc EXCEPT ![p] = "done"]
                    /\ op' = op

(* vesting.py wait_for_tx: one pass of `for i in range(20)`.               *)
WaitForTxVesting(p) ==
    /\ flow = "vesting"
    /\ pc[p] = "wait"
    /\ polls[p] < AttemptCeiling
    /\ \E reported \in BOOLEAN :
          IF reported
          THEN AfterWait(p, "Confirmed")
          ELSE IF polls[p] + 1 = AttemptCeiling
          THEN AfterWait(p, "Timeout")
          ELSE /\ polls' = [polls EXCEPT ![p] = @ + 1]
               /\ UNCHANGED <<pc, op, wakeAt, result>>
    /\ UNCHANGED <<flow, now, created, spent, refStored, wallet_funded, deadline, script_utxo,
                   tx, submits>>

(* forty_two.py wait_for_tx: one attempt under @retry(delay=20), which     *)
(* sets no limit of tries; the model stops counting at MaxPolls.           *)
WaitForTxFortyTwo(p) ==
    /\ flow = "fixed"
    /\ pc[p] = "wait"
    /\ \E reported \in BOOLEAN :
          IF reported
          THEN AfterWait(p, "Confirmed")
          ELSE /\ polls[p] < MaxPolls
               /\ polls' = [polls EXCEPT ![p] = @ + 1]
               /\ UNCHANGED <<pc, op, wakeAt, result>>
    /\ UNCHANGED <<flow, now, created, spent, refStored, wallet_funded, deadline, script_utxo,
                   tx, submits>>

(* ---------------------------------------------------------------------- *)
(* builder.build_and_sign: the transaction builder is a library outside    *)
(* the scripts. A call returns the signed transaction (TRUE) or raises     *)
(* (FALSE), and neither script catches what it raises. A builder that      *)
(* is told to draw its input from my_address (add_input_address) cannot   *)
(* return while my_address holds no output.                                *)
(* ---------------------------------------------------------------------- *)
BuildOutcomes == IF wallet_funded THEN BOOLEAN ELSE {FALSE}

BuildError == IF wallet_funded THEN "BuildFailed" ELSE "InsufficientFunds"

(* ---------------------------------------------------------------------- *)
(* vesting.py                                                              *)
(* ---------------------------------------------------------------------- *)

(* lock_funds(10000000, 60) up to build_and_sign, which returns the signed *)
(* transaction or raises.                                                  *)
LockFunds(p) ==
    /\ flow = "vesting"
    /\ pc[p] = "build"
    /\ op[p] = "lock"
    /\ LET current_time_ms == now
           deadline_ms == current_time_ms + (LockDurationSeconds * 1000)
       IN  \E built \in BuildOutcomes :
              IF built
              THEN /\ deadline' = [deadline EXCEPT ![p] = deadline_ms]
                   /\ tx' = [tx EXCEPT ![p] =
                          [NoTx EXCEPT !.kind = "lock",
                                       !.coin = VestingLockAmount,
                                       !.payload = VestingDatumToCbor(MyKey, deadline_ms)]]
                   /\ pc' = [pc EXCEPT ![p] = "submit"]
                   /\ result' = result
              ELSE /\ pc' = [pc EXCEPT ![p] = "raised"]
                   /\ result' = [result EXCEPT ![p] = BuildError]
                   /\ UNCHANGED <<deadline, tx>>
    /\ submits' = [submits EXCEPT ![p] = 0]
    /\ UNCHANGED <<flow, now, created, spent, refStored, wallet_funded, op, wakeAt,
                   script_utxo, polls>>

(* main: time.sleep(65) between lock_funds and claim_funds.                *)
Sleep(p) ==
    /\ flow = "vesting"
    /\ pc[p] = "sleep"
    /\ now >= wakeAt[p]
    /\ pc' = [pc EXCEPT ![p] = "scan"]
    /\ op' = [op EXCEPT ![p] = "claim"]
    /\ wakeAt' = [wakeAt EXCEPT ![p] = 0]
    /\ result' = [result EXCEPT ![p] = "none"]
    /\ UNCHANGED <<flow, now, created, spent, refStored, wallet_funded, deadline, script_utxo,
                   tx, submits, polls>>

(* The loop without its `break`: the last match wins.                      *)
RECURSIVE FindReleasableNoBreak(_, _)
FindReleasableNoBreak(utxos, me) ==
    IF utxos = <<>>
    THEN NoUtxo
    ELSE LET utxo == Head(utxos)
             datum_obj == VestingDatumFromCbor(utxo.payload)
             later == FindReleasableNoBreak(Tail(utxos), me)
         IN  IF utxo.payload # NoDatum /\ datum_obj.ok /\ datum_obj.beneficiary = me
                /\ later = NoUtxo
             THEN utxo
             ELSE later

(* The loop of claim_funds over chain_context.utxos(script_address): the   *)
(* first output that has a datum, decodes as VestingDatum and names `me`   *)
(* as beneficiary; NoUtxo stands for script_utxo = None.                   *)
RECURSIVE FindReleasable(_, _)
FindReleasable(utxos, me) ==
    IF utxos = <<>>
    THEN NoUtxo
    ELSE LET utxo == Head(utxos)
             datum_obj == VestingDatumFromCbor(utxo.payload)
         IN  IF utxo.payload = NoDatum
             THEN FindReleasable(Tail(utxos), me)
             ELSE IF datum_obj.ok /\ datum_obj.beneficiary = me
             THEN utxo
             ELSE FindReleasable(Tail(utxos), me)

(* The scan run over a list that still holds the outputs already spent.    *)
ClaimScanStale(p) ==
    /\ flow = "vesting"
    /\ pc[p] = "scan"
    /\ LET found == FindReleasable(created, MyKey)
       IN  /\ script_utxo' = [script_utxo EXCEPT ![p] = found]
           /\ IF found = NoUtxo
              THEN /\ pc' = [pc EXCEPT ![p] = "done"]
                   /\ result' = [result EXCEPT ![p] = "NotFound"]
              ELSE /\ pc' = [pc EXCEPT ![p] = "build"]
                   /\ result' = result
    /\ UNCHANGED <<flow, now, created, spent, refStored, wallet_funded, op, deadline, wakeAt,
                   tx, submits, polls>>

(* claim_funds(deadline) up to `if not script_utxo: return`.               *)
ClaimScan(p) ==
    /\ flow = "vesting"
    /\ pc[p] = "scan"
    /\ LET found == FindReleasable(ScriptUtxos, MyKey)
       IN  /\ script_utxo' = [script_utxo EXCEPT ![p] = found]
           /\ IF found = NoUtxo
              THEN /\ pc' = [pc EXCEPT ![p] = "done"]
                   /\ result' = [result EXCEPT ![p] = "NotFound"]
              ELSE /\ pc' = [pc EXCEPT ![p] = "build"]
                   /\ result' = result
    /\ UNCHANGED <<flow, now, created, spent, refStored, wallet_funded, op, deadline, wakeAt,
                   tx, submits, polls>>

(* claim_funds forwarding less than the output holds.                      *)
ClaimBuildPartial(p) ==
    /\ flow = "vesting"
    /\ pc[p] = "build"
    /\ op[p] = "claim"
    /\ \E built \in BuildOutcomes :
          IF wallet_funded /\ built
          THEN /\ tx' = [tx EXCEPT ![p] =
                        [NoTx EXCEPT !.kind = "release",
                                     !.input = script_utxo[p].id,
                                     !.script = "inline",
                                     !.validity_start = LastBlockSlot,
                                     !.signer = MyKey,
                                     !.dest = MyKey,
                                     !.coin = script_utxo[p].coin \div 2,
                                     !.collateral = TRUE]]
               /\ pc' = [pc EXCEPT ![p] = "submit"]
               /\ result' = result
          ELSE /\ pc' = [pc EXCEPT ![p] = "raised"]
               /\ result' = [result EXCEPT ![p] =
                                IF wallet_funded THEN "BuildFailed"
                                                 ELSE "MissingCollateral"]
               /\ tx' = tx
    /\ submits' = [submits EXCEPT ![p] = 0]
    /\ UNCHANGED <<flow, now, created, spent, refStored, wallet_funded, op, deadline, wakeAt,
                   script_utxo, polls>>

(* claim_funds from the redeemer to build_and_sign: deadline_ms is not     *)
(* read, validity_start is the gateway's last block slot. The collateral   *)
(* is chain_context.utxos(my_address)[0]: with no output at my_address the *)
(* index raises (MissingCollateral) before anything is built or submitted. *)
(* build_and_sign then returns the signed transaction or raises.           *)
ClaimBuild(p) ==
    /\ flow = "vesting"
    /\ pc[p] = "build"
    /\ op[p] = "claim"
    /\ LET current_slot == LastBlockSlot
       IN  \E built \in BuildOutcomes :
              IF wallet_funded /\ built
              THEN /\ tx' = [tx EXCEPT ![p] =
                            [NoTx EXCEPT !.kind = "release",
                                         !.input = script_utxo[p].id,
                                         !.script = "inline",
                                         !.validity_start = current_slot,
                                         !.signer = MyKey,
                                         !.dest = MyKey,
                                         !.coin = script_utxo[p].coin,
                                         !.collateral = TRUE]]
                   /\ pc' = [pc EXCEPT ![p] = "submit"]
                   /\ result' = result
              ELSE /\ pc' = [pc EXCEPT ![p] = "raised"]
                   /\ result' = [result EXCEPT ![p] =
                                    IF wallet_funded THEN "BuildFailed"
                                                     ELSE "MissingCollateral"]
                   /\ tx' = tx
    /\ submits' = [submits EXCEPT ![p] = 0]
    /\ UNCHANGED <<flow, now, created, spent, refStored, wallet_funded, op, deadline, wakeAt,
                   script_utxo, polls>>

(* ---------------------------------------------------------------------- *)
(* forty_two.py                                                            *)
(* ---------------------------------------------------------------------- *)

(* Step 1: an output at giver_address carrying forty_two_script.           *)
StoreScript(p) ==
    /\ flow = "fixed"
    /\ pc[p] = "build"
    /\ op[p] = "store"
    /\ \E built \in BuildOutcomes :
          IF built
          THEN /\ tx' = [tx EXCEPT ![p] =
                        [NoTx EXCEPT !.kind = "store",
                                     !.dest = MyKey,
                                     !.coin = FortyTwoLockAmount,
                                     !.script = "inline"]]
               /\ pc' = [pc EXCEPT ![p] = "submit"]
               /\ result' = result
          ELSE /\ pc' = [pc EXCEPT ![p] = "raised"]
               /\ result' = [result EXCEPT ![p] = BuildError]
               /\ tx' = tx
    /\ submits' = [submits EXCEPT ![p] = 0]
    /\ UNCHANGED <<flow, now, created, spent, refStored, wallet_funded, op, deadline, wakeAt,
                   script_utxo, polls>>

(* Step 2: 50000000 to script_address with datum 42.                       *)
LockFortyTwo(p) ==
    /\ flow = "fixed"
    /\ pc[p] = "build"
    /\ op[p] = "lock"
    /\ \E built \in BuildOutcomes :
          IF built
          THEN /\ tx' = [tx EXCEPT ![p] =
                        [NoTx EXCEPT !.kind = "lock",
                                     !.coin = FortyTwoLockAmount,
                                     !.payload = FixedDatumToCbor(FortyTwoDatum)]]
               /\ pc' = [pc EXCEPT ![p] = "submit"]
               /\ result' = [result EXCEPT ![p] = "none"]
          ELSE /\ pc' = [pc EXCEPT ![p] = "raised"]
               /\ result' = [result EXCEPT ![p] = BuildError]
               /\ tx' = tx
    /\ submits' = [submits EXCEPT ![p] = 0]
    /\ UNCHANGED <<flow, now, created, spent, refStored, wallet_funded, op, deadline, wakeAt,
                   script_utxo, polls>>

(* The taker's loop: the first output at script_address that has a datum.  *)
RECURSIVE FindUtxoToSpend(_)
FindUtxoToSpend(utxos) ==
    IF utxos = <<>>
    THEN NoUtxo
    ELSE LET utxo == Head(utxos)
         IN  IF utxo.payload # NoDatum
             THEN utxo
             ELSE FindUtxoToSpend(Tail(utxos))

TakeScan(p) ==
    /\ flow = "fixed"
    /\ pc[p] = "scan"
    /\ script_utxo' = [script_utxo EXCEPT ![p] = FindUtxoToSpend(ScriptUtxos)]
    /\ pc' = [pc EXCEPT ![p] = "build"]
    /\ result' = [result EXCEPT ![p] = "none"]
    /\ UNCHANGED <<flow, now, created, spent, refStored, wallet_funded, op, deadline, wakeAt,
                   tx, submits, polls>>

(* Step 3 with a check of the redeemer against the selected datum before   *)
(* anything is sent.                                                       *)
TakeBuildLocalCheck(p) ==
    /\ flow = "fixed"
    /\ pc[p] = "build"
    /\ op[p] = "take"
    /\ IF script_utxo[p] = NoUtxo
       THEN /\ pc' = [pc EXCEPT ![p] = "raised"]
            /\ result' = [result EXCEPT ![p] = "NoneInput"]
            /\ submits' = [submits EXCEPT ![p] = 0]
            /\ tx' = tx
       ELSE IF script_utxo[p].payload # FixedDatumToCbor(FortyTwoRedeemer)
       THEN /\ pc' = [pc EXCEPT ![p] = "raised"]
            /\ result' = [result EXCEPT ![p] = "WitnessMismatch"]
            /\ submits' = [submits EXCEPT ![p] = 0]
            /\ tx' = tx
       ELSE \E built \in BOOLEAN :
               IF built
               THEN /\ tx' = [tx EXCEPT ![p] =
                             [NoTx EXCEPT !.kind = "release",
                                          !.input = script_utxo[p].id,
                                          !.script = IF refStored THEN "ref" ELSE "none",
                                          !.redeemer = FortyTwoRedeemer,
                                          !.dest = MyKey,
                                          !.coin = FortyTwoTakeAmount]]
                    /\ pc' = [pc EXCEPT ![p] = "submit"]
                    /\ submits' = [submits EXCEPT ![p] = 0]
                    /\ result' = result
               ELSE /\ pc' = [pc EXCEPT ![p] = "raised"]
                    /\ result' = [result EXCEPT ![p] = "BuildFailed"]
                    /\ submits' = [submits EXCEPT ![p] = 0]
                    /\ tx' = tx
    /\ UNCHANGED <<flow, now, created, spent, refStored, wallet_funded, op, deadline, wakeAt,
                   script_utxo, polls>>

(* Step 3 from the reference-script scan to build_and_sign. With           *)
(* utxo_to_spend = None, add_script_input raises and the script ends;      *)
(* build_and_sign returns the signed transaction or raises.                *)
TakeBuild(p) ==
    /\ flow = "fixed"
    /\ pc[p] = "build"
    /\ op[p] = "take"
    /\ IF script_utxo[p] = NoUtxo
       THEN /\ pc' = [pc EXCEPT ![p] = "raised"]
            /\ result' = [result EXCEPT ![p] = "NoneInput"]
            /\ submits' = [submits EXCEPT ![p] = 0]
            /\ tx' = tx
       ELSE \E built \in BOOLEAN :
               IF built
               THEN /\ tx' = [tx EXCEPT ![p] =
                             [NoTx EXCEPT !.kind = "release",
                                          !.input = script_utxo[p].id,
                                          !.script = IF refStored THEN "ref" ELSE "none",
                                          !.redeemer = FortyTwoRedeemer,
                                          !.dest = MyKey,
                                          !.coin = FortyTwoTakeAmount]]
                    /\ pc' = [pc EXCEPT ![p] = "submit"]
                    /\ submits' = [submits EXCEPT ![p] = 0]
                    /\ result' = result
               ELSE /\ pc' = [pc EXCEPT ![p] = "raised"]
                    /\ result' = [result EXCEPT ![p] = "BuildFailed"]
                    /\ submits' = [submits EXCEPT ![p] = 0]
                    /\ tx' = tx
    /\ UNCHANGED <<flow, now, created, spent, refStored, wallet_funded, op, deadline, wakeAt,
                   script_utxo, polls>>

(* ---------------------------------------------------------------------- *)
(* Specification                                                           *)
(* ---------------------------------------------------------------------- *)
Next ==
    \/ Tick
    \/ EnvLock
    \/ \E p \in Procs : LockFunds(p)
    \/ \E p \in Procs : Sleep(p)
    \/ \E p \in Procs : ClaimScan(p)
    \/ \E p \in Procs : ClaimBuild(p)
    \/ \E p \in Procs : StoreScript(p)
    \/ \E p \in Procs : LockFortyTwo(p)
    \/ \E p \in Procs : TakeScan(p)
    \/ \E p \in Procs : TakeBuild(p)
    \/ \E p \in Procs : SubmitTx(p)
    \/ \E p \in Procs : WaitForTxVesting(p)
    \/ \E p \in Procs : WaitForTxFortyTwo(p)

Spec == Init /\ [][Next]_vars

(* ---------------------------------------------------------------------- *)
(* Notions the properties share                                            *)
(* ---------------------------------------------------------------------- *)

(* The matcher of vesting.py's scan: beneficiary equals the caller's hash. *)
Matches(u, me) ==
    /\ u.payload # NoDatum
    /\ VestingDatumFromCbor(u.payload).ok
    /\ VestingDatumFromCbor(u.payload).beneficiary = me

(* What the scan of the running script accepts.                            *)
Accepted(u) == IF flow = "vesting" THEN Matches(u, MyKey) ELSE u.payload # NoDatum

(* The condition p locked, as read back from a payload.                    *)
IsLockedCondition(p, payload) ==
    IF flow = "vesting"
    THEN VestingDatumFromCbor(payload) =
             [ok |-> TRUE, beneficiary |-> MyKey, deadline |-> deadline[p]]
    ELSE IsFixedDatum(payload) /\ FixedValue(payload) = FortyTwoDatum

(* p's lock was taken by the ledger and its output is still unspent.       *)
OwnLockUnspent(p) == p \in CreatedIds /\ p \notin spent

(* Position in the gateway's answer of the output with this id.            *)
IndexOf(id) == CHOOSE i \in 1..Len(ScriptUtxos) : ScriptUtxos[i].id = id

(* p took a scan step in this transition.                                  *)
ScanStep(p) == pc[p] = "scan" /\ pc'[p] # "scan"

(* p called chain_context.submit_tx in this transition.                    *)
SubmitStep(p) == pc[p] = "submit" /\ submits'[p] = submits[p] + 1

InRelease(p) == op[p] \in {"claim", "take"}

(* The ledger took p's release of the output it selected.                  *)
ReleaseAccepted(p) ==
    InRelease(p) /\ pc[p] \in {"wait", "done"} /\ script_utxo[p] # NoUtxo

(* p's release was rejected by the gateway and the rejection raised.       *)
ReleaseRejected(p) ==
    InRelease(p) /\ pc[p] = "raised" /\ result[p] = "SubmissionRejected"

(* p's release of the output it selected went to the gateway.              *)
ReleaseSubmitted(p) ==
    /\ InRelease(p)
    /\ script_utxo[p] # NoUtxo
    /\ \/ pc[p] \in {"wait", "done"}
       \/ pc[p] = "raised" /\ submits[p] > 0

(* Pending / Releasable / Released of an output of the TimeLocked flow.    *)
Status(u) ==
    IF u.id \in spent THEN "Released"
    ELSE IF VestingDatumFromCbor(u.payload).ok
            /\ now > VestingDatumFromCbor(u.payload).deadline
    THEN "Releasable"
    ELSE "Pending"

(* ---------------------------------------------------------------------- *)
(* C1: a release of a TimeLocked output attempted while the ledger time is *)
(* not greater than the deadline of the selected output is not submitted   *)
(* to the gateway: every submit_tx call of claim_funds happens at a time   *)
(* greater than that deadline.                                             *)
(* ---------------------------------------------------------------------- *)
C1_NoSubmitBeforeDeadline ==
    [][\A p \in Procs :
          (flow = "vesting" /\ op[p] = "claim" /\ SubmitStep(p))
              => now > VestingDatumFromCbor(script_utxo[p].payload).deadline]_vars

(* ---------------------------------------------------------------------- *)
(* C2: the scan of claim_funds returns the first output, in the gateway's  *)
(* order, that has a payload, decodes as a VestingDatum and names the      *)
(* caller as beneficiary; outputs without payload or with an undecodable   *)
(* one are skipped; with no match the call ends normally with NotFound.    *)
(* ---------------------------------------------------------------------- *)
C2_ScanFirstMatch ==
    [][\A p \in Procs :
          (flow = "vesting" /\ ScanStep(p)) =>
              LET M == {i \in 1..Len(ScriptUtxos) : Matches(ScriptUtxos[i], MyKey)}
              IN  IF M = {}
                  THEN /\ script_utxo'[p] = NoUtxo
                       /\ pc'[p] = "done"
                       /\ result'[p] = "NotFound"
                  ELSE /\ \E i \in M : /\ \A j \in M : i <= j
                                       /\ script_utxo'[p] = ScriptUtxos[i]
                       /\ pc'[p] = "build"
                       /\ result'[p] # "NotFound"]_vars

(* One instance ended with NotFound; the other selected its output after   *)
(* skipping an undecodable payload that precedes it.                       *)
C2_Witness ==
    /\ flow = "vesting"
    /\ pc[Taker] = "done" /\ result[Taker] = "NotFound"
    /\ script_utxo[Giver] # NoUtxo
    /\ Len(ScriptUtxos) >= 2
    /\ ScriptUtxos[1].payload = CborInt(FortyTwoDatum)
    /\ ScriptUtxos[2] = script_utxo[Giver]

(* ---------------------------------------------------------------------- *)
(* C3 as stated: after a successful lock, a scan whose matcher accepts the *)
(* locked condition returns exactly the output that lock created, whatever *)
(* else sits at the script address.                                        *)
(* ---------------------------------------------------------------------- *)
C3_ScanReturnsOwnLock ==
    [][\A p \in Procs :
          (ScanStep(p) /\ OwnLockUnspent(p)) => script_utxo'[p].id = p]_vars

(* ---------------------------------------------------------------------- *)
(* C3 amended: after a successful lock whose output is still unspent, the  *)
(* scan returns the first output, in the gateway's order, that its matcher *)
(* accepts; this is the output of the lock whenever no accepted output     *)
(* precedes it, and the condition decoded from the lock's output equals    *)
(* the condition that was locked.                                          *)
(* ---------------------------------------------------------------------- *)
C3_ScanReturnsOwnLockIfFirst ==
    [][\A p \in Procs :
          (ScanStep(p) /\ OwnLockUnspent(p)) =>
              LET own == IndexOf(p)
              IN  /\ IsLockedCondition(p, ScriptUtxos[own].payload)
                  /\ Accepted(ScriptUtxos[own])
                  /\ \E i \in 1..own :
                        /\ Accepted(ScriptUtxos[i])
                        /\ \A j \in 1..(i - 1) : ~Accepted(ScriptUtxos[j])
                        /\ script_utxo'[p] = ScriptUtxos[i]
                  /\ (\A j \in 1..(own - 1) : ~Accepted(ScriptUtxos[j]))
                        => script_utxo'[p] = ScriptUtxos[own]]_vars

(* The giver selected the output of its own lock, which stands behind an   *)
(* output of another party in the gateway's order.                         *)
C3_Witness ==
    /\ script_utxo[Giver].id = Giver
    /\ InRelease(Giver)
    /\ Len(ScriptUtxos) >= 2
    /\ ScriptUtxos[2] = script_utxo[Giver]
    /\ IsLockedCondition(Giver, script_utxo[Giver].payload)

(* ---------------------------------------------------------------------- *)
(* C4: Released is terminal. A scan of claim_funds never returns an        *)
(* output that an accepted release has consumed, and an output only moves  *)
(* Pending -> Releasable -> Released.                                      *)
(* ---------------------------------------------------------------------- *)
C4_ReleasedIsTerminal ==
    [][flow = "vesting" =>
          /\ \A p \in Procs : ScanStep(p) => script_utxo'[p].id \notin spent
          /\ \A u \in {created[i] : i \in 1..Len(created)} :
                \/ Status(u)' = Status(u)
                \/ Status(u) = "Pending" /\ Status(u)' = "Releasable"
                \/ Status(u) = "Releasable" /\ Status(u)' = "Released"]_vars

(* The taker's release consumed the giver's output; the giver's later scan *)
(* did not return it.                                                      *)
C4_Witness ==
    /\ flow = "vesting"
    /\ Giver \in spent
    /\ ReleaseAccepted(Taker) /\ script_utxo[Taker].id = Giver
    /\ pc[Giver] = "done" /\ result[Giver] = "NotFound"

(* ---------------------------------------------------------------------- *)
(* C5: when instances interleave scan and release against one output, at   *)
(* most one release of it is accepted, the accepted one has consumed the   *)
(* output, and every other instance that submitted ended with the          *)
(* rejection raised to its caller; an instance that raised without         *)
(* submitting failed at the build (no collateral, no input, builder        *)
(* raised).                                                                *)
(* ---------------------------------------------------------------------- *)
C5_AtMostOneRelease ==
    /\ \A p, q \in Procs :
          (p # q /\ ReleaseAccepted(p) /\ ReleaseAccepted(q))
              => script_utxo[p].id # script_utxo[q].id
    /\ \A p \in Procs :
          /\ ReleaseAccepted(p) => script_utxo[p].id \in spent
          /\ ReleaseSubmitted(p) => (ReleaseAccepted(p) \/ ReleaseRejected(p))
          /\ (InRelease(p) /\ pc[p] = "raised" /\ submits[p] = 0)
                => result[p] \in {"MissingCollateral", "NoneInput", "BuildFailed"}

(* Both instances selected the same output and submitted: one release was  *)
(* accepted, the other rejected.                                           *)
C5_Witness ==
    /\ script_utxo[Giver] # NoUtxo
    /\ script_utxo[Giver] = script_utxo[Taker]
    /\ ReleaseAccepted(Giver)
    /\ ReleaseRejected(Taker)
    /\ submits[Taker] = 1

(* ---------------------------------------------------------------------- *)
(* C6: in both scripts the confirmation wait makes at most 20 polls: no    *)
(* instance is still waiting after 20 polls that reported nothing.         *)
(* vesting.py's range(20) loop keeps this; forty_two.py's @retry(delay=20) *)
(* sets no tries and polls on.                                             *)
(* ---------------------------------------------------------------------- *)
C6_EveryWaitBounded ==
    \A p \in Procs : pc[p] = "wait" => polls[p] < AttemptCeiling

(* ---------------------------------------------------------------------- *)
(* C7: a rejection by the gateway is surfaced and not retried. An          *)
(* operation calls submit_tx at most once; a rejected operation has        *)
(* raised, started no polling and holds no transaction; once raised, the   *)
(* instance builds and submits nothing more.                               *)
(* ---------------------------------------------------------------------- *)
C7_RejectionSurfacedOnce ==
    [][\A p \in Procs :
          /\ submits'[p] <= 1
          /\ result'[p] = "SubmissionRejected" =>
                /\ pc'[p] = "raised"
                /\ polls'[p] = 0
                /\ tx'[p] = NoTx
          /\ (SubmitStep(p) /\ pc'[p] # "wait") =>
                /\ result'[p] = "SubmissionRejected"
                /\ <<created', spent'>> = <<created, spent>>
          /\ pc[p] = "raised" =>
                /\ pc'[p] = "raised"
                /\ tx'[p] = tx[p]
                /\ submits'[p] = submits[p]
                /\ polls'[p] = polls[p]]_vars

(* The giver's lock was rejected; the script ended there.                  *)
C7_Witness ==
    /\ op[Giver] = "lock"
    /\ pc[Giver] = "raised"
    /\ result[Giver] = "SubmissionRejected"
    /\ submits[Giver] = 1

C9_FullValueForwarded ==
    \A p \in Procs :
        (pc[p] = "submit" /\ tx[p].kind = "release") =>
            /\ tx[p].input = script_utxo[p].id
            /\ tx[p].dest = MyKey
            /\ tx[p].coin = script_utxo[p].coin

(* ---------------------------------------------------------------------- *)
(* C9 amended: every release transaction spends the selected output as its *)
(* script input and pays the caller's address; in the TimeLocked flow the  *)
(* amount is the full coin value of that output, in the Fixed flow it is   *)
(* the fixed amount 25123456 whatever the output holds.                    *)
(* ---------------------------------------------------------------------- *)
C9_ForwardedAmount ==
    \A p \in Procs :
        (pc[p] = "submit" /\ tx[p].kind = "release") =>
            /\ script_utxo[p] # NoUtxo
            /\ tx[p].input = script_utxo[p].id
            /\ tx[p].dest = MyKey
            /\ tx[p].coin = IF flow = "vesting"
                            THEN script_utxo[p].coin
                            ELSE FortyTwoTakeAmount

(* The giver is about to submit the release of its own 10000000 lock.      *)
C9_Witness ==
    /\ flow = "vesting"
    /\ pc[Giver] = "submit"
    /\ tx[Giver].kind = "release"
    /\ script_utxo[Giver].id = Giver
    /\ tx[Giver].coin = VestingLockAmount

(* ---------------------------------------------------------------------- *)
(* C10: an output whose condition the instance can never satisfy (another  *)
(* beneficiary; a fixed value other than the redeemer it sends) is never   *)
(* selected by a scan, so no release spending it is ever submitted.        *)
(* ---------------------------------------------------------------------- *)
C10_UnsatisfiableNeverSelected ==
    \A p \in Procs :
        script_utxo[p] # NoUtxo =>
            IF flow = "vesting"
            THEN Matches(script_utxo[p], MyKey)
            ELSE /\ IsFixedDatum(script_utxo[p].payload)
                 /\ FixedValue(script_utxo[p].payload) = FortyTwoRedeemer

====
